---- MODULE Spec2Model ----
(***************************************************************************)
(* Model of lattice: construction of a System from a layered diagram       *)
(* (lattice/system.py) and its pull-based simulation over Inflow, Storage  *)
(* and Outlet nodes (lattice/node.py, lattice/reservoir.py).               *)
(*                                                                         *)
(* Conventions.  Positions and counters are 0-based as in the Python code; *)
(* TLA+ sequences are 1-based, so position p of a list is element p + 1.   *)
(* A node name is the sequence of its '_'-separated tokens: "inflow_2" is  *)
(* <<"inflow", 2>>, and f'{name}_{i}' is Append(name, i).                  *)
(***************************************************************************)
EXTENDS Integers, Sequences, FiniteSets, TLC

VARIABLES
    diagram,     \* the description: layers of elements, an element is a node or a group
    nodes,       \* node id -> the node as constructed (tag, name, data, capacity, ...)
    name,        \* node id -> current node.name
    senders,     \* node id -> the node's sender set (ids of the node objects in it)
    storage,     \* node id -> reservoir.storage of a Storage node
    timestep,    \* node id -> Inflow.__timestep
    pc,          \* position of the caller
    i,           \* loop index of link_diagram
    cxns,        \* connections handed to the last link_layers call
    call,        \* arguments of the last link_layers call (layer positions in diagram)
    err,         \* the exception that ended the last call, or NoErr
    logs,        \* the Log objects created so far, in creation order
    wraps,       \* node id -> the Logs whose logger wraps the node's operate, innermost first
    result,      \* the mapping name -> Log returned by the last add_logs
    order,       \* node id -> iteration order of the node's sender set
    time_steps,  \* argument of simulation
    t,           \* loop counter of simulation
    log_nodes,   \* argument of simulation and add_logs: the names given, or None
    ret,         \* the value returned by the last call made on a node, reservoir or Log
    hist,        \* the calls made on the object so far (since the last reset of an Inflow)
    trace        \* the nodes whose operate ran in the last send of the caller, in order

vars == <<diagram, nodes, name, senders, storage, timestep, pc, i, cxns, call,
          err, logs, wraps, result, order, time_steps, t, log_nodes, ret, hist, trace>>

----------------------------------------------------------------------------
(* Bounds of the explored inputs *)
MaxLayers == 3
MaxElems == 2
MaxGroup == 2
MaxNodes == 3
MaxSteps == 3
MaxPos == 1
MaxRequest == 2
Precision == 3
MaxData == 2
MaxVal == 1
MaxCalls == 4
MaxAmount == 2
MaxRecords == 2
MaxCap == 1
MaxSends == 2
MaxLogs == 1
MaxRuns == 2

----------------------------------------------------------------------------
(* Tag, lattice/node.py *)
INFLOW == "inflow"
STORAGE == "storage"
OUTLET == "outlet"
Tag == {INFLOW, STORAGE, OUTLET}

NoErr == [type |-> "none", site |-> "none"]
Raise(type, site) == [type |-> type, site |-> site]

(* Inflow(name, data), Storage(name, reservoir), Outlet(name): the objects *)
(* after __post_init__; an empty name argument becomes the tag value.      *)
Inflow(nm, data) ==
    [tag |-> INFLOW, name |-> IF nm = <<>> THEN <<INFLOW>> ELSE nm,
     data |-> data, capacity |-> 0, initial_volume |-> 0, loop |-> FALSE,
     reservoir_name |-> <<>>]

Storage(nm, capacity, initial_volume) ==
    [tag |-> STORAGE, name |-> IF nm = <<>> THEN <<STORAGE>> ELSE nm,
     data |-> <<>>, capacity |-> capacity, initial_volume |-> initial_volume,
     loop |-> FALSE, reservoir_name |-> <<>>]

(* Storage(name, reservoir) with a reservoir that is given a name *)
StorageOf(nm, reservoir_name, capacity, initial_volume) ==
    [Storage(nm, capacity, initial_volume) EXCEPT !.reservoir_name = reservoir_name]

Outlet(nm) ==
    [tag |-> OUTLET, name |-> IF nm = <<>> THEN <<OUTLET>> ELSE nm,
     data |-> <<>>, capacity |-> 0, initial_volume |-> 0, loop |-> FALSE,
     reservoir_name |-> <<>>]

(* variant: the stored volume takes part in the comparison *)
NodeEq_with_storage(a, b) ==
    /\ nodes[a].tag = nodes[b].tag
    /\ name[a] = name[b]
    /\ nodes[a].tag = INFLOW => nodes[a].data = nodes[b].data
    /\ nodes[a].tag = STORAGE => /\ nodes[a].capacity = nodes[b].capacity
                                 /\ nodes[a].reservoir_name = nodes[b].reservoir_name
                                 /\ storage[a] = storage[b]

(* __eq__ / __hash__ of the three node classes: same class and same __key, *)
(* evaluated on the current name.  Storage and senders are not in the key. *)
NodeEq(a, b) ==
    /\ nodes[a].tag = nodes[b].tag
    /\ name[a] = name[b]
    /\ nodes[a].tag = INFLOW => nodes[a].data = nodes[b].data
    /\ nodes[a].tag = STORAGE => /\ nodes[a].capacity = nodes[b].capacity
                                 /\ nodes[a].reservoir_name = nodes[b].reservoir_name

(* __key of the three node classes (the type of the operations is the      *)
(* default one throughout); __hash__ is the hash of this tuple             *)
node_key(n) ==
    IF nodes[n].tag = INFLOW THEN <<nodes[n].tag, name[n], nodes[n].data>>
    ELSE IF nodes[n].tag = STORAGE
    THEN <<nodes[n].tag, name[n], nodes[n].reservoir_name, nodes[n].capacity>>
    ELSE <<nodes[n].tag, name[n]>>

(* set.add(sender): nothing is added when an equal element is present *)
add_sender(set, sender) ==
    IF \E s \in set : NodeEq(s, sender) THEN set ELSE set \cup {sender}

----------------------------------------------------------------------------
(* flatten_layer: the nodes of a layer, groups expanded in place *)
RECURSIVE flatten_from(_, _)
flatten_from(layer, e) ==
    IF e > Len(layer) THEN <<>>
    ELSE layer[e].nodes \o flatten_from(layer, e + 1)

(* variant: the nodes come out from right to left *)
flatten_layer_reversed(layer) ==
    LET flat == flatten_from(layer, 1)
    IN  [k \in 1..Len(flat) |-> flat[Len(flat) + 1 - k]]

flatten_layer(layer) == flatten_from(layer, 1)

(* the isinstance checks of flatten_layer: an element that is neither a    *)
(* list or tuple nor a Node, or a group with a member that is not a Node,  *)
(* raises ValueError.  NotANode stands for any object that is not a Node.  *)
NotANode == 0

flatten_layer_err(layer) ==
    IF \E e \in 1..Len(layer) : \E k \in 1..Len(layer[e].nodes) :
           layer[e].nodes[k] = NotANode
    THEN Raise("ValueError", "flatten_layer")
    ELSE NoErr

(* flatten_diagram: the nodes of all layers, in layer order *)
RECURSIVE flatten_layers_from(_, _)
flatten_layers_from(d, l) ==
    IF l > Len(d) THEN <<>>
    ELSE flatten_layer(d[l]) \o flatten_layers_from(d, l + 1)

flatten_diagram(d) == flatten_layers_from(d, 1)

----------------------------------------------------------------------------
(* process_outlet_layer: the layer must be one element, an Outlet node.    *)
(* layer[0].tag on a group (a list) raises AttributeError.                 *)
process_outlet_layer(layer) ==
    IF Len(layer) # 1
    THEN [err |-> Raise("ValueError", "process_outlet_layer"), cxns |-> <<>>]
    ELSE IF layer[1].grp
    THEN [err |-> Raise("AttributeError", "process_outlet_layer"), cxns |-> <<>>]
    ELSE IF nodes[layer[1].nodes[1]].tag # OUTLET
    THEN [err |-> Raise("ValueError", "process_outlet_layer"), cxns |-> <<>>]
    ELSE [err |-> NoErr, cxns |-> << <<0, 0>> >>]

(* variant: the Inflow nodes seen are not subtracted *)
process_node_cxn_no_gap(n, ni) == <<n, n>>

(* variant: every node is connected to the first upstream position *)
process_node_cxn_first(n, ni) == <<n, 0>>

(* the connection process_node appends for a node that is not an Inflow:   *)
(* n nodes and ni Inflow nodes (i in the code) were seen before it         *)
process_node_cxn(n, ni) == <<n, n - ni>>

(* process_middle_layer: process_node over the nodes of the layer, left to *)
(* right, groups in place; p is the next position of the flattened layer   *)
RECURSIVE process_nodes(_, _, _, _)
process_nodes(flat, p, ni, acc) ==
    IF p > Len(flat) THEN [err |-> NoErr, cxns |-> acc]
    ELSE IF nodes[flat[p]].tag = OUTLET
    THEN [err |-> Raise("ValueError", "process_middle_layer"), cxns |-> acc]
    ELSE IF nodes[flat[p]].tag = INFLOW
    THEN process_nodes(flat, p + 1, ni + 1, acc)
    ELSE process_nodes(flat, p + 1, ni, Append(acc, process_node_cxn(p - 1, ni)))

process_middle_layer(layer) == process_nodes(flatten_layer(layer), 1, 0, <<>>)

(* validate_inflow_layer: every node of the flattened layer is an Inflow *)
validate_inflow_layer(layer) ==
    IF \E p \in 1..Len(flatten_layer(layer)) :
           nodes[flatten_layer(layer)[p]].tag # INFLOW
    THEN Raise("ValueError", "validate_inflow_layer")
    ELSE NoErr

(* variant: the upstream check admits the position just past the end *)
us_out_of_range_off_by_one(cxn, us) == cxn[2] > Len(us)

(* the two range checks of link_layers on one connection *)
ds_out_of_range(cxn, ds_flat) == cxn[1] >= Len(ds_flat)
us_out_of_range(cxn, us) == cxn[2] >= Len(us)

(* ds_node.add_sender(node) for the nodes of the upstream element, in      *)
(* order; an Inflow has no add_sender (AttributeError on the first call)   *)
RECURSIVE add_senders(_, _, _, _)
add_senders(snd, ds_node, part, k) ==
    IF k > Len(part) THEN [senders |-> snd, err |-> NoErr]
    ELSE IF nodes[ds_node].tag = INFLOW
    THEN [senders |-> snd, err |-> Raise("AttributeError", "link_layers")]
    ELSE add_senders([snd EXCEPT ![ds_node] = add_sender(@, part[k])],
                     ds_node, part, k + 1)

(* link_layers: the connections in order; a connection out of range raises *)
(* and leaves the senders added by the connections before it.  The list    *)
(* lookups us[cxn[1]] and ds_flat[cxn[0]] raise IndexError past the end,   *)
(* which the two range checks before them exclude.                         *)
RECURSIVE link_cxns(_, _, _, _, _)
link_cxns(snd, ds_flat, us, cs, k) ==
    IF k > Len(cs) THEN [senders |-> snd, err |-> NoErr]
    ELSE IF ds_out_of_range(cs[k], ds_flat)
    THEN [senders |-> snd, err |-> Raise("ValueError", "link_layers")]
    ELSE IF us_out_of_range(cs[k], us)
    THEN [senders |-> snd, err |-> Raise("ValueError", "link_layers")]
    ELSE IF cs[k][2] + 1 > Len(us) \/ cs[k][1] + 1 > Len(ds_flat)
    THEN [senders |-> snd, err |-> Raise("IndexError", "link_layers")]
    ELSE LET r == add_senders(snd, ds_flat[cs[k][1] + 1],
                              us[cs[k][2] + 1].nodes, 1)
         IN  IF r.err # NoErr THEN r
             ELSE link_cxns(r.senders, ds_flat, us, cs, k + 1)

link_layers(snd, ds, us, cs) == link_cxns(snd, flatten_layer(ds), us, cs, 1)

----------------------------------------------------------------------------
(* format_node_names, first loop: the name a node gets given the names     *)
(* assigned so far: its own name if free, else name_i for the least free   *)
(* i >= 2                                                                  *)
RECURSIVE free_suffix(_, _, _)
free_suffix(nm, names, k) ==
    IF Append(nm, k) \in names THEN free_suffix(nm, names, k + 1) ELSE k

first_pass_name(nm, names) ==
    IF nm \in names THEN Append(nm, free_suffix(nm, names, 2)) ELSE nm

(* first loop over flatten_diagram: nm is the name function being built,   *)
(* names the list of assigned names (as a sequence), dupes the base names  *)
(* found taken, in order of discovery                                      *)
RECURSIVE first_pass(_, _, _, _, _)
first_pass(flat, p, nm, names, dupes) ==
    IF p > Len(flat) THEN [name |-> nm, dupes |-> dupes]
    ELSE LET old == nm[flat[p]]
             taken == {names[k] : k \in 1..Len(names)}
             new == first_pass_name(old, taken)
         IN  first_pass(flat, p + 1, [nm EXCEPT ![flat[p]] = new],
                        Append(names, new),
                        IF old \in taken THEN Append(dupes, old) ELSE dupes)

(* second loop: for each name in dupes, every node that now has exactly    *)
(* that name is renamed name_1                                             *)
RECURSIVE second_pass(_, _, _)
second_pass(nm, dupes, k) ==
    IF k > Len(dupes) THEN nm
    ELSE second_pass([n \in DOMAIN nm |->
                         IF nm[n] = dupes[k] THEN Append(dupes[k], 1) ELSE nm[n]],
                     dupes, k + 1)

format_node_names(d, nm) ==
    LET fp == first_pass(flatten_diagram(d), 1, nm, <<>>, <<>>)
    IN  second_pass(fp.name, fp.dupes, 1)

----------------------------------------------------------------------------
(* variant: the release ignores the volume already stored *)
passive_release_no_storage(stored, capacity, inflow) ==
    IF inflow - capacity > 0 THEN inflow - capacity ELSE 0

(* variant: a full reservoir releases all it holds and receives *)
passive_release_everything(stored, capacity, inflow) ==
    IF stored + inflow - capacity > 0 THEN stored + inflow ELSE 0

(* passive_operation: spill what exceeds the capacity, store the rest *)
passive_release(stored, capacity, inflow) ==
    IF stored + inflow - capacity > 0 THEN stored + inflow - capacity ELSE 0

(* variant: everything is stored, whatever the capacity *)
passive_storage_uncapped(stored, capacity, inflow) == stored + inflow

passive_storage(stored, capacity, inflow) ==
    IF capacity < stored + inflow THEN capacity ELSE stored + inflow

(* passive_operation(reservoir, inflow): the storage it leaves in the      *)
(* reservoir and the tuple it returns                                      *)
passive_operation(stored, capacity, inflow) ==
    [storage |-> passive_storage(stored, capacity, inflow),
     output |-> <<inflow, passive_storage(stored, capacity, inflow),
                  <<passive_release(stored, capacity, inflow)>> >>]

(* variant: the record holds the storage before the operation *)
storage_operate_stale(stored, capacity, inflow) ==
    <<inflow, stored, <<passive_release(stored, capacity, inflow)>> >>

(* Storage.operate (the wrapper of __post_init__): the record              *)
(* (inflow, reservoir.storage after the operation, releases)               *)
storage_operate(stored, capacity, inflow) ==
    <<inflow, passive_storage(stored, capacity, inflow),
      <<passive_release(stored, capacity, inflow)>> >>

(* Transfer.operate with the default transform_fn *)
transfer_operate(inflow) == <<inflow, inflow>>

(* sum of a tuple of releases *)
RECURSIVE sum_from(_, _)
sum_from(seq, k) == IF k > Len(seq) THEN 0 ELSE seq[k] + sum_from(seq, k + 1)

sum(seq) == sum_from(seq, 1)

(* variant: the wrapper appends the output twice *)
logger_twice(lg, ws, output) ==
    [l \in DOMAIN lg |->
        IF \E k \in 1..Len(ws) : ws[k] = l
        THEN [lg[l] EXCEPT !.records = Append(Append(@, output), output)]
        ELSE lg[l]]

(* Log.logger: the wrapper appends the output to its Log; ws are the Logs  *)
(* whose wrappers are stacked on the operate function of the node          *)
logger(lg, ws, output) ==
    [l \in DOMAIN lg |->
        IF \E k \in 1..Len(ws) : ws[k] = l
        THEN [lg[l] EXCEPT !.records = Append(@, output)]
        ELSE lg[l]]

(* variant: with loop, the restart lands on the second element *)
inflow_next_skips_first(data, ts, loop) ==
    IF ts + 1 = Len(data) /\ ~loop
    THEN [err |-> Raise("StopIteration", "Inflow.__next__"), timestep |-> ts, value |-> 0]
    ELSE LET ts1 == IF ts + 1 = Len(data) THEN 1 ELSE ts + 1
         IN  IF ts1 >= Len(data)
             THEN [err |-> Raise("IndexError", "Inflow.__next__"), timestep |-> ts1, value |-> 0]
             ELSE [err |-> NoErr, timestep |-> ts1, value |-> data[ts1 + 1]]

(* variant: the position advances before the end of data is signalled *)
inflow_next_advancing(data, ts, loop) ==
    IF ts + 1 >= Len(data) /\ ~loop
    THEN [err |-> Raise("StopIteration", "Inflow.__next__"), timestep |-> ts + 1, value |-> 0]
    ELSE LET ts1 == IF ts + 1 = Len(data) THEN 0 ELSE ts + 1
         IN  IF ts1 >= Len(data)
             THEN [err |-> Raise("IndexError", "Inflow.__next__"), timestep |-> ts1, value |-> 0]
             ELSE [err |-> NoErr, timestep |-> ts1, value |-> data[ts1 + 1]]

(* Inflow.__next__: the position after the call and the value returned;    *)
(* at the end of data, reset if loop, else StopIteration                   *)
inflow_next(data, ts, loop) ==
    IF ts + 1 = Len(data) /\ ~loop
    THEN [err |-> Raise("StopIteration", "Inflow.__next__"), timestep |-> ts, value |-> 0]
    ELSE LET ts1 == IF ts + 1 = Len(data) THEN 0 ELSE ts + 1
         IN  IF ts1 >= Len(data)
             THEN [err |-> Raise("IndexError", "Inflow.__next__"), timestep |-> ts1, value |-> 0]
             ELSE [err |-> NoErr, timestep |-> ts1, value |-> data[ts1 + 1]]

(* an exception leaving the generator expression of receive: a             *)
(* StopIteration becomes a RuntimeError, any other exception passes        *)
through_generator(e) ==
    IF e.type = "StopIteration" THEN Raise("RuntimeError", "receive") ELSE e

(* Flows are Python floats: a sum is rounded to the nearest number the     *)
(* format represents, ties to the even one.  The format here keeps         *)
(* Precision significant bits (53 in the program), so that integers below  *)
(* 2^Precision are exact and larger ones are spaced ulp(x) apart.          *)
abs(x) == IF x < 0 THEN 0 - x ELSE x

RECURSIVE ulp_from(_, _)
ulp_from(x, u) == IF abs(x) < u * 2^Precision THEN u ELSE ulp_from(x, 2 * u)

ulp(x) == ulp_from(x, 1)

round_nearest_even(x) ==
    LET u == ulp(x)
        q == x \div u
        r == x % u
    IN  IF 2 * r < u THEN q * u
        ELSE IF 2 * r > u THEN (q + 1) * u
        ELSE IF q % 2 = 0 THEN q * u ELSE (q + 1) * u

(* one step of sum(...) in receive: the flow of the next sender is added *)
accumulate(acc, value) == round_nearest_even(acc + value)

(* send of a node on the state st = [storage, timestep, logs, err, order,  *)
(* trace]: Inflow.send, Storage.send, Outlet.send; receive_from is the sum *)
(* over the senders in their iteration order st.order; st.trace lists the  *)
(* nodes in the order their operate is called                              *)
RECURSIVE send(_, _), receive_from(_, _, _, _)

(* variant: a sender that has operated in this send is not asked again *)
RECURSIVE receive_from_once(_, _, _, _)
receive_from_once(seq, k, st, acc) ==
    IF k > Len(seq) THEN [st |-> st, value |-> acc]
    ELSE IF \E p \in 1..Len(st.trace) : st.trace[p] = seq[k]
    THEN receive_from_once(seq, k + 1, st, acc)
    ELSE LET r == send(seq[k], st)
         IN  IF r.st.err # NoErr
             THEN [st |-> [r.st EXCEPT !.err = through_generator(@)], value |-> 0]
             ELSE receive_from_once(seq, k + 1, r.st, accumulate(acc, r.value))

receive_from(seq, k, st, acc) ==
    IF k > Len(seq) THEN [st |-> st, value |-> acc]
    ELSE LET r == send(seq[k], st)
         IN  IF r.st.err # NoErr
             THEN [st |-> [r.st EXCEPT !.err = through_generator(@)], value |-> 0]
             ELSE receive_from(seq, k + 1, r.st, accumulate(acc, r.value))

(* variant: a node operates, on no inflow, before it pulls from its senders *)
send_operating_first(n, st) ==
    IF nodes[n].tag = INFLOW
    THEN LET nx == inflow_next(nodes[n].data, st.timestep[n], nodes[n].loop)
             out == transfer_operate(nx.value)
         IN  IF nx.err # NoErr
             THEN [st |-> [st EXCEPT !.timestep[n] = nx.timestep, !.err = nx.err], value |-> 0]
             ELSE [st |-> [st EXCEPT !.timestep[n] = nx.timestep,
                                     !.logs = logger(@, wraps[n], out),
                                     !.trace = Append(@, n)],
                   value |-> out[2]]
    ELSE LET out == IF nodes[n].tag = STORAGE
                    THEN storage_operate(st.storage[n], nodes[n].capacity, 0)
                    ELSE <<0, st.storage[n], <<0>> >>
             st1 == [st EXCEPT !.storage[n] = out[2],
                               !.logs = logger(@, wraps[n], out),
                               !.trace = Append(@, n)]
         IN  receive_from(st1.order[n], 1, st1, 0)

send(n, st) ==
    IF nodes[n].tag = INFLOW
    THEN LET nx == inflow_next(nodes[n].data, st.timestep[n], nodes[n].loop)
             st1 == [st EXCEPT !.timestep[n] = nx.timestep]
             out == transfer_operate(nx.value)
         IN  IF nx.err # NoErr
             THEN [st |-> [st1 EXCEPT !.err = nx.err], value |-> 0]
             ELSE [st |-> [st1 EXCEPT !.logs = logger(@, wraps[n], out),
                                      !.trace = Append(@, n)],
                   value |-> out[2]]
    ELSE LET rc == receive_from(st.order[n], 1, st, 0)
         IN  IF rc.st.err # NoErr THEN rc
             ELSE IF nodes[n].tag = STORAGE
             THEN LET out == storage_operate(rc.st.storage[n], nodes[n].capacity, rc.value)
                  IN  [st |-> [rc.st EXCEPT !.storage[n] = out[2],
                                            !.logs = logger(@, wraps[n], out),
                                            !.trace = Append(@, n)],
                       value |-> sum(out[3])]
             ELSE LET out == transfer_operate(rc.value)
                  IN  [st |-> [rc.st EXCEPT !.logs = logger(@, wraps[n], out),
                                            !.trace = Append(@, n)],
                       value |-> out[2]]

(* a header of a Log: a label, or a tuple of labels *)
label(str) == [label |-> str]
labels(tuple) == [labels |-> tuple]

(* variant: every Log gets the two labels of a Transfer *)
headers_of_transfer(n) == <<label("inflow"), label("outflow")>>

(* output labels that attach_log sets as the headers of the Log *)
headers_of(n) ==
    IF nodes[n].tag = STORAGE THEN <<label("inflow"), label("storage"), label("outflow")>>
    ELSE <<label("inflow"), label("outflow")>>

(* Log.records_by_label on the Log lg: the field at the index of the label *)
(* in the headers; when the label is no header, the last field for         *)
(* 'outflow', the first for 'inflow', else the field at the index the      *)
(* label has inside the first header that is a tuple holding it, else the  *)
(* ValueError of headers.index.  A record shorter than the index raises    *)
(* IndexError.                                                             *)
least(S) == CHOOSE p \in S : \A q \in S : p <= q

field_at(records, index) ==
    IF \E k \in 1..Len(records) : Len(records[k]) < index
    THEN [err |-> Raise("IndexError", "records_by_label"), value |-> <<>>]
    ELSE [err |-> NoErr, value |-> [k \in 1..Len(records) |-> records[k][index]]]

records_by_label(lg, lab) ==
    LET hs == lg.headers
        exact == {p \in 1..Len(hs) : hs[p] = label(lab)}
        holding == {p \in 1..Len(hs) :
                       /\ "labels" \in DOMAIN hs[p]
                       /\ \E q \in 1..Len(hs[p].labels) : hs[p].labels[q] = lab}
    IN  IF exact # {} THEN field_at(lg.records, least(exact))
        ELSE IF lab = "outflow"
        THEN [err |-> NoErr,
              value |-> [k \in 1..Len(lg.records) |-> lg.records[k][Len(lg.records[k])]]]
        ELSE IF lab = "inflow" THEN field_at(lg.records, 1)
        ELSE IF holding # {}
        THEN LET h == hs[least(holding)].labels
             IN  field_at(lg.records, least({q \in 1..Len(h) : h[q] = lab}))
        ELSE [err |-> Raise("ValueError", "records_by_label"), value |-> <<>>]

(* System.node_by_name: the first node of flatten_diagram with that name,  *)
(* 0 when there is none (ValueError)                                       *)
node_by_name(nm) ==
    LET flat == flatten_diagram(diagram)
        hits == {p \in 1..Len(flat) : name[flat[p]] = nm}
    IN  IF hits = {} THEN 0
        ELSE flat[CHOOSE p \in hits : \A q \in hits : p <= q]

(* System.add_logs over the requested names, in order: a new Log per name, *)
(* attached to the node found by name, and entered in the returned mapping *)
RECURSIVE add_logs_from(_, _, _)
add_logs_from(names, k, acc) ==
    IF k > Len(names) THEN acc
    ELSE LET n == node_by_name(names[k])
             l == Len(acc.logs) + 1
         IN  IF n = 0 THEN [acc EXCEPT !.err = Raise("ValueError", "node_by_name")]
             ELSE add_logs_from(names, k + 1,
                    [logs |-> Append(acc.logs, [headers |-> headers_of(n), records |-> <<>>]),
                     wraps |-> [acc.wraps EXCEPT ![n] = Append(@, l)],
                     result |-> [x \in DOMAIN acc.result \cup {names[k]} |->
                                    IF x = names[k] THEN l ELSE acc.result[x]],
                     err |-> NoErr])

(* the names argument of add_logs and simulation: None, or a tuple of names *)
None == [given |-> FALSE, names |-> <<>>]
Names(seq) == [given |-> TRUE, names |-> seq]

(* names = None: the names of all nodes, in flattened order *)
all_names == [p \in 1..Len(flatten_diagram(diagram)) |-> name[flatten_diagram(diagram)[p]]]

----------------------------------------------------------------------------
(* Descriptions given to the program.  A shape says, per layer, which      *)
(* elements are single nodes and which are groups, and of what size; the   *)
(* node objects are numbered in flattened order, each appearing once.      *)
RECURSIVE sizes_before(_, _)
sizes_before(layer, e) ==
    IF e = 0 THEN 0 ELSE layer[e].size + sizes_before(layer, e - 1)

RECURSIVE nodes_before(_, _)
nodes_before(shape, l) ==
    IF l = 0 THEN 0
    ELSE sizes_before(shape[l], Len(shape[l])) + nodes_before(shape, l - 1)

node_count(shape) == nodes_before(shape, Len(shape))

number_diagram(shape) ==
    [l \in 1..Len(shape) |->
        [e \in 1..Len(shape[l]) |->
            [grp |-> shape[l][e].grp,
             nodes |-> [k \in 1..shape[l][e].size |->
                           nodes_before(shape, l - 1) + sizes_before(shape[l], e - 1) + k]]]]

single == [grp |-> FALSE, size |-> 1]
group(k) == [grp |-> TRUE, size |-> k]

ElemShapes == {single} \cup {group(k) : k \in 1..MaxGroup}
LayerShapes ==
    {ly \in UNION {[1..e -> ElemShapes] : e \in 0..MaxElems} :
        sizes_before(ly, Len(ly)) <= MaxNodes}

(* the shapes of exactly l layers and at most MaxNodes nodes *)
RECURSIVE ShapesOf(_)
ShapesOf(l) ==
    IF l = 0 THEN {<<>>}
    ELSE UNION {{Append(d, ly) : ly \in {x \in LayerShapes :
                     node_count(d) + sizes_before(x, Len(x)) <= MaxNodes}} :
                d \in ShapesOf(l - 1)}

DiagramShapes == UNION {ShapesOf(l) : l \in 1..MaxLayers}

(* default-constructed nodes, as in the diagrams of tests/test_system.py *)
DefaultData == <<1, 1, 0>>
DefaultNodes == {Inflow(<<>>, DefaultData), Storage(<<>>, 1, 0), Outlet(<<>>)}

(* an Outlet fed by a group of three Inflow nodes, with user-supplied names *)
NamePool == {<<>>, <<"inflow", 1>>, <<"inflow", 2>>}
NamedShape == << <<single>>, <<group(3)>> >>
NamedInputs ==
    {[diagram |-> number_diagram(NamedShape),
      nodes |-> [n \in 1..4 |-> IF n = 1 THEN Outlet(<<>>)
                                ELSE Inflow(nm[n], DefaultData)]] :
        nm \in [2..4 -> NamePool]}

(* simple_diagram() of tests/test_system.py *)
simple_diagram ==
    [diagram |-> number_diagram(<< <<single>>, <<single>>, <<single>> >>),
     nodes |-> <<Outlet(<<>>), Storage(<<>>, 1, 0), Inflow(<<>>, <<1, 1, 0>>)>>]

(* complex_diagram() of tests/test_system.py *)
complex_diagram ==
    [diagram |-> number_diagram(<< <<single>>, <<group(2)>>,
                                   <<single, group(2)>>, <<single, single>> >>),
     nodes |-> <<Outlet(<<>>), Storage(<<>>, 1, 0), Storage(<<>>, 1, 0),
                 Inflow(<<>>, <<1, 1, 0>>), Storage(<<>>, 1, 0), Storage(<<>>, 1, 0),
                 Inflow(<<>>, <<1, 1, 1>>), Inflow(<<>>, <<1, 1, 1>>)>>]

(* an Outlet fed by a Storage that a group of two Inflow nodes with         *)
(* different names and data feeds                                          *)
fan_in_diagram ==
    [diagram |-> number_diagram(<< <<single>>, <<single>>, <<group(2)>> >>),
     nodes |-> <<Outlet(<<>>), Storage(<<>>, 1, 0),
                 Inflow(<<"a">>, <<1, 0, 2>>), Inflow(<<"b">>, <<0, 1, 1>>)>>]

(* an Outlet fed by a group of three Inflow nodes whose flows differ in     *)
(* magnitude                                                               *)
magnitudes_diagram ==
    [diagram |-> number_diagram(<< <<single>>, <<group(3)>> >>),
     nodes |-> <<Outlet(<<>>), Inflow(<<"a">>, <<1, 1, 0>>), Inflow(<<"b">>, <<1, 0, 1>>),
                 Inflow(<<"c">>, <<2^Precision, 1, 0>>)>>]

(* a description with an Outlet in its third layer, after a Storage *)
sink_in_middle_diagram ==
    [diagram |-> number_diagram(<< <<single>>, <<single>>, <<single, single>>, <<single>> >>),
     nodes |-> <<Outlet(<<>>), Storage(<<"a">>, 1, 0), Storage(<<"b">>, 1, 0), Outlet(<<"o">>),
                 Inflow(<<>>, <<1, 1, 0>>)>>]

(* the names a caller may ask logs for: tuples of at most MaxRequest names *)
(* of nodes of the system or a name that no node has                       *)
RequestPool == {name[n] : n \in DOMAIN nodes} \cup {<<"nowhere">>}
Requests ==
    {None} \cup {Names(q) : q \in UNION {[1..k -> RequestPool] : k \in 0..MaxRequest}}

(* positions a caller may name in a connection handed to link_layers *)
Positions == 0..MaxPos

(* the iteration orders of a set *)
Orders(S) == {f \in [1..Cardinality(S) -> S] : \A a, b \in DOMAIN f : f[a] = f[b] => a = b}

(* an iteration order for the sender set of each of the nodes 1..k *)
RECURSIVE SenderOrders(_)
SenderOrders(k) ==
    IF k = 0 THEN {<<>>}
    ELSE {Append(f, o) : f \in SenderOrders(k - 1), o \in Orders(senders[k])}

----------------------------------------------------------------------------
(* the nodes as constructed, unlinked *)
Given(d, ns) ==
    /\ diagram = d
    /\ nodes = ns
    /\ name = [n \in DOMAIN ns |-> ns[n].name]
    /\ senders = [n \in DOMAIN ns |-> {}]
    /\ storage = [n \in DOMAIN ns |-> ns[n].initial_volume]
    /\ timestep = [n \in DOMAIN ns |-> -1]
    /\ pc = "new"
    /\ i = 0
    /\ cxns = <<>>
    /\ call = [ds |-> 0, us |-> 0]
    /\ err = NoErr
    /\ logs = <<>>
    /\ wraps = [n \in DOMAIN ns |-> <<>>]
    /\ result = <<>>
    /\ order = [n \in DOMAIN ns |-> <<>>]
    /\ time_steps = 0
    /\ t = 0
    /\ log_nodes = None
    /\ ret = 0
    /\ hist = <<>>
    /\ trace = <<>>

Init ==
    \/ \E d \in DiagramShapes : \E ns \in [1..node_count(d) -> DefaultNodes] :
          Given(number_diagram(d), ns)
    \/ \E inp \in NamedInputs \cup {simple_diagram, complex_diagram, fan_in_diagram,
                                   magnitudes_diagram, sink_in_middle_diagram} :
          Given(inp.diagram, inp.nodes)

sim_vars == <<storage, timestep, logs, wraps, result, order, time_steps, t, log_nodes>>
call_vars == <<ret, hist, trace>>

(* variant: the connections found before a layer is refused are linked *)
link_diagram_step_linking_first ==
    /\ pc \in {"new", "link_diagram"}
    /\ i < Len(diagram) - 1
    /\ LET pr == IF i = 0 THEN process_outlet_layer(diagram[i + 1])
                 ELSE process_middle_layer(diagram[i + 1])
           lk == link_layers(senders, diagram[i + 1], diagram[i + 2], pr.cxns)
       IN  /\ cxns' = pr.cxns
           /\ call' = [ds |-> i, us |-> i + 1]
           /\ senders' = lk.senders
           /\ err' = IF pr.err # NoErr THEN pr.err ELSE lk.err
           /\ pc' = IF err' # NoErr THEN "failed" ELSE "link_diagram"
           /\ i' = IF err' # NoErr THEN i ELSE i + 1
    /\ UNCHANGED <<diagram, nodes, name>>
    /\ UNCHANGED sim_vars
    /\ UNCHANGED call_vars

(* link_diagram, one iteration of its loop: the connections of layer i,    *)
(* then link_layers(diagram[i], diagram[i + 1], cxns)                      *)
link_diagram_step ==
    /\ pc \in {"new", "link_diagram"}
    /\ i < Len(diagram) - 1
    /\ LET pr == IF i = 0 THEN process_outlet_layer(diagram[i + 1])
                 ELSE process_middle_layer(diagram[i + 1])
           lk == link_layers(senders, diagram[i + 1], diagram[i + 2], pr.cxns)
       IN  IF pr.err # NoErr
           THEN /\ pc' = "failed"
                /\ err' = pr.err
                /\ UNCHANGED <<senders, cxns, call, i>>
           ELSE /\ cxns' = pr.cxns
                /\ call' = [ds |-> i, us |-> i + 1]
                /\ senders' = lk.senders
                /\ err' = lk.err
                /\ pc' = IF lk.err # NoErr THEN "failed" ELSE "link_diagram"
                /\ i' = IF lk.err # NoErr THEN i ELSE i + 1
    /\ UNCHANGED <<diagram, nodes, name>>
    /\ UNCHANGED sim_vars
    /\ UNCHANGED call_vars

(* link_diagram after its loop: validate_inflow_layer(diagram[-1]) *)
link_diagram_validate ==
    /\ pc \in {"new", "link_diagram"}
    /\ i = Len(diagram) - 1
    /\ err' = validate_inflow_layer(diagram[Len(diagram)])
    /\ pc' = IF err' # NoErr THEN "failed" ELSE "linked"
    /\ UNCHANGED <<diagram, nodes, name, senders, cxns, call, i>>
    /\ UNCHANGED sim_vars
    /\ UNCHANGED call_vars

(* System.__init__ after link_diagram: fix_diagram and format_node_names *)
system_init ==
    /\ pc = "linked"
    /\ name' = format_node_names(diagram, name)
    /\ pc' = "system"
    /\ UNCHANGED <<diagram, nodes, senders, cxns, call, i, err>>
    /\ UNCHANGED sim_vars
    /\ UNCHANGED call_vars

(* link_layers called on the two layers of an unlinked two-layer           *)
(* description with one connection of the caller's choice, as in           *)
(* TestLinkLayers                                                          *)
link_layers_call ==
    /\ pc = "new"
    /\ Len(diagram) = 2
    /\ \E d \in Positions, u \in Positions :
          LET lk == link_layers(senders, diagram[1], diagram[2], << <<d, u>> >>)
          IN  /\ cxns' = << <<d, u>> >>
              /\ call' = [ds |-> 0, us |-> 1]
              /\ senders' = lk.senders
              /\ err' = lk.err
    /\ pc' = "link_layers"
    /\ UNCHANGED <<diagram, nodes, name, i>>
    /\ UNCHANGED sim_vars
    /\ UNCHANGED call_vars

(* System.simulation(T, names) up to its loop: add_logs(log_nodes), then   *)
(* outlet = diagram[0][0]; o is the iteration order of the sender sets     *)
simulation_begin(T, names, o) ==
    /\ time_steps' = T
    /\ order' = o
    /\ log_nodes' = names
    /\ LET al == add_logs_from(IF names.given THEN names.names ELSE all_names, 1,
                    [logs |-> logs, wraps |-> wraps, result |-> <<>>, err |-> NoErr])
       IN  /\ logs' = al.logs
           /\ wraps' = al.wraps
           /\ result' = al.result
           /\ err' = IF al.err # NoErr THEN al.err
                     ELSE IF Len(diagram[1]) = 0
                     THEN Raise("IndexError", "simulation")
                     ELSE NoErr
    /\ pc' = IF err' # NoErr THEN "raised" ELSE "running"
    /\ t' = 0
    /\ UNCHANGED <<diagram, nodes, name, senders, cxns, call, i, storage, timestep>>
    /\ UNCHANGED call_vars

(* the first call of simulation on a System *)
simulation_start ==
    /\ pc = "system"
    /\ \E T \in 0..MaxSteps, names \in Requests, o \in SenderOrders(Len(nodes)) :
          simulation_begin(T, names, o)

(* simulation called again, with the same arguments, on a System whose     *)
(* last simulation has returned                                            *)
simulation_again ==
    /\ pc = "done"
    /\ Len(hist) < MaxRuns
    /\ simulation_begin(time_steps, log_nodes, order)

(* one iteration of the loop of simulation: outlet.send() *)
simulation_step ==
    /\ pc = "running"
    /\ t < time_steps
    /\ IF diagram[1][1].grp
       THEN /\ err' = Raise("AttributeError", "simulation")
            /\ pc' = "raised"
            /\ UNCHANGED <<storage, timestep, logs, t, trace>>
       ELSE LET r == send(diagram[1][1].nodes[1],
                          [storage |-> storage, timestep |-> timestep,
                           logs |-> logs, err |-> NoErr, order |-> order, trace |-> <<>>])
            IN  /\ storage' = r.st.storage
                /\ trace' = r.st.trace
                /\ timestep' = r.st.timestep
                /\ logs' = r.st.logs
                /\ err' = r.st.err
                /\ pc' = IF r.st.err # NoErr THEN "raised" ELSE "running"
                /\ t' = IF r.st.err # NoErr THEN t ELSE t + 1
    /\ UNCHANGED <<diagram, nodes, name, senders, cxns, call, i, wraps, result,
                   order, time_steps, log_nodes>>
    /\ UNCHANGED <<ret, hist>>

(* simulation returns the logs after time_steps iterations; hist keeps,    *)
(* per call that has returned, the mapping returned and the Logs as they   *)
(* were then                                                               *)
simulation_return ==
    /\ pc = "running"
    /\ t = time_steps
    /\ pc' = "done"
    /\ hist' = Append(hist, [result |-> result, logs |-> logs])
    /\ UNCHANGED <<diagram, nodes, name, senders, storage, timestep, i, cxns, call,
                   err, logs, wraps, result, order, time_steps, t, log_nodes>>
    /\ UNCHANGED <<ret, trace>>

Next ==
    \/ link_diagram_step
    \/ link_diagram_validate
    \/ system_init
    \/ link_layers_call
    \/ simulation_start
    \/ simulation_step
    \/ simulation_return

Spec == Init /\ [][Next]_vars

----------------------------------------------------------------------------
(* Systems that are run, and run again.  The setter of Inflow.loop is      *)
(* applied to a node before the System is built.                           *)
Looping(node) == [node EXCEPT !.loop = TRUE]

(* a layer element that is the node object n, or the group of the node     *)
(* objects ns; a node object may be placed more than once                  *)
one(n) == [grp |-> FALSE, nodes |-> <<n>>]
several(ns) == [grp |-> TRUE, nodes |-> ns]

(* the chain of simple_diagram with a looping Inflow of two flows *)
looping_diagram ==
    [diagram |-> << <<one(1)>>, <<one(2)>>, <<one(3)>> >>,
     nodes |-> <<Outlet(<<>>), Storage(<<>>, 1, 0), Looping(Inflow(<<>>, <<1, 0>>))>>]

(* a Storage fed by a group of two Inflow nodes, the first with data of    *)
(* any length up to MaxData                                                *)
ExhaustingInputs ==
    {[diagram |-> << <<one(1)>>, <<one(2)>>, <<several(<<3, 4>>)>> >>,
      nodes |-> <<Outlet(<<>>), Storage(<<>>, 1, 0),
                  Inflow(<<"a">>, data), Inflow(<<"b">>, <<1, 1, 0>>)>>] :
        data \in UNION {[1..k -> {0, MaxVal}] : k \in 0..MaxData}}

(* two Storage nodes that feed the Outlet, the same looping Inflow object  *)
(* placed above each of them                                               *)
shared_inflow_diagram ==
    [diagram |-> << <<one(1)>>, <<several(<<2, 3>>)>>, <<one(4), one(4)>> >>,
     nodes |-> <<Outlet(<<>>), Storage(<<"a">>, 1, 0), Storage(<<"b">>, 1, 0),
                 Looping(Inflow(<<>>, <<1, 0, 2>>))>>]

(* the same with one Storage object placed above each of the two, fed by   *)
(* two looping Inflow nodes                                                *)
shared_storage_diagram ==
    [diagram |-> << <<one(1)>>, <<several(<<2, 3>>)>>, <<one(4), one(4)>>,
                    <<one(5), one(6)>> >>,
     nodes |-> <<Outlet(<<>>), Storage(<<"a">>, 1, 0), Storage(<<"b">>, 1, 0),
                 Storage(<<"c">>, 2, 0),
                 Looping(Inflow(<<"x">>, <<1, 0>>)), Looping(Inflow(<<"y">>, <<2>>))>>]

(* a chain of two Storage nodes that hold water when the System is built *)
stocked_diagram ==
    [diagram |-> << <<one(1)>>, <<one(2)>>, <<one(3)>>, <<one(4)>> >>,
     nodes |-> <<Outlet(<<>>), Storage(<<"a">>, 2, 1), Storage(<<"b">>, 1, 1),
                 Inflow(<<>>, <<2, 0, 1>>)>>]

RunInputs ==
    {simple_diagram, fan_in_diagram, looping_diagram, shared_inflow_diagram,
     shared_storage_diagram, stocked_diagram} \cup ExhaustingInputs

RunInit == \E inp \in RunInputs : Given(inp.diagram, inp.nodes)

RunNext ==
    \/ link_diagram_step
    \/ link_diagram_validate
    \/ system_init
    \/ simulation_start
    \/ simulation_step
    \/ simulation_return
    \/ simulation_again

RunSpec == RunInit /\ [][RunNext]_vars

----------------------------------------------------------------------------
(* Objects used on their own, outside a System: the layers d, the nodes ns *)
(* and the Logs lg as constructed, the caller at p                         *)
AloneWith(d, ns, lg, p) ==
    /\ diagram = d
    /\ nodes = ns
    /\ name = [n \in DOMAIN ns |-> ns[n].name]
    /\ senders = [n \in DOMAIN ns |-> {}]
    /\ storage = [n \in DOMAIN ns |-> ns[n].initial_volume]
    /\ timestep = [n \in DOMAIN ns |-> -1]
    /\ pc = p
    /\ i = 0
    /\ cxns = <<>>
    /\ call = [ds |-> 0, us |-> 0]
    /\ err = NoErr
    /\ logs = lg
    /\ wraps = [n \in DOMAIN ns |-> <<>>]
    /\ result = <<>>
    /\ order = [n \in DOMAIN ns |-> <<>>]
    /\ time_steps = 0
    /\ t = 0
    /\ log_nodes = None
    /\ ret = 0
    /\ hist = <<>>
    /\ trace = <<>>

Alone(ns, lg, p) == AloneWith(<<>>, ns, lg, p)

(* the data of an Inflow: at most MaxData flows in 0..MaxVal *)
Datas == UNION {[1..k -> 0..MaxVal] : k \in 0..MaxData}

----------------------------------------------------------------------------
(* An Inflow used on its own, as in TestInflow: receive, reset and the     *)
(* loop setter.  hist is the receive calls since the last reset: the loop  *)
(* status at the call, its outcome, the position before and after it.      *)
InflowInit == \E data \in Datas : Alone(<<Inflow(<<>>, data)>>, <<>>, "inflow")

node_vars == <<diagram, name, senders, storage, pc, i, cxns, call, logs, wraps, result,
               order, time_steps, t, log_nodes, trace>>

(* Inflow.receive *)
inflow_receive ==
    /\ pc = "inflow"
    /\ Len(hist) < MaxCalls
    /\ LET nx == inflow_next(nodes[1].data, timestep[1], nodes[1].loop)
       IN  /\ timestep' = [timestep EXCEPT ![1] = nx.timestep]
           /\ err' = nx.err
           /\ ret' = nx.value
           /\ hist' = Append(hist, [loop |-> nodes[1].loop, err |-> nx.err.type,
                                    value |-> nx.value, before |-> timestep[1],
                                    after |-> nx.timestep])
    /\ UNCHANGED nodes
    /\ UNCHANGED node_vars

(* Inflow.reset *)
inflow_reset ==
    /\ pc = "inflow"
    /\ timestep' = [timestep EXCEPT ![1] = -1]
    /\ err' = NoErr
    /\ ret' = 0
    /\ hist' = <<>>
    /\ UNCHANGED nodes
    /\ UNCHANGED node_vars

(* the setter of Inflow.loop *)
inflow_set_loop ==
    /\ pc = "inflow"
    /\ \E value \in BOOLEAN : nodes' = [nodes EXCEPT ![1].loop = value]
    /\ UNCHANGED <<timestep, err, ret, hist>>
    /\ UNCHANGED node_vars

InflowNext ==
    \/ inflow_receive
    \/ inflow_reset
    \/ inflow_set_loop

InflowSpec == InflowInit /\ [][InflowNext]_vars

----------------------------------------------------------------------------
(* A BasicReservoir of lattice/reservoir.py used on its own: capacity and  *)
(* initial volume are any amounts in the range, and so is each inflow.     *)
(* The reservoir is kept as the capacity and the storage of node 1; hist   *)
(* is the last call: its inflow and the storage before it.                 *)
Amounts == (0 - MaxAmount)..MaxAmount

ReservoirInit ==
    \E capacity \in Amounts, initial_volume \in Amounts :
        Alone(<<Storage(<<>>, capacity, initial_volume)>>, <<>>, "reservoir")

(* BasicReservoir.operate(inflow) with the passive operation *)
reservoir_operate ==
    /\ pc = "reservoir"
    /\ t < MaxCalls
    /\ \E inflow \in Amounts :
          LET op == passive_operation(storage[1], nodes[1].capacity, inflow)
          IN  /\ storage' = [storage EXCEPT ![1] = op.storage]
              /\ ret' = op.output
              /\ hist' = <<[inflow |-> inflow, before |-> storage[1]]>>
    /\ t' = t + 1
    /\ UNCHANGED <<diagram, nodes, name, senders, timestep, pc, i, cxns, call, err, logs,
                   wraps, result, order, time_steps, log_nodes, trace>>

ReservoirNext == reservoir_operate

ReservoirSpec == ReservoirInit /\ [][ReservoirNext]_vars

----------------------------------------------------------------------------
(* A Log used on its own: Log(records, headers).  The headers are none     *)
(* (the default), the output labels of a Transfer, the labels attach_log   *)
(* gives a Storage, or passive_operation_headers of lattice/reservoir.py;  *)
(* the records are outputs of a Transfer (inflow, outflow) or of a         *)
(* reservoir (inflow, storage, (release,)).  hist is the last lookup.       *)
transfer_labels == <<label("inflow"), label("outflow")>>
storage_labels == <<label("inflow"), label("storage"), label("outflow")>>
passive_operation_headers == <<label("Inflow"), label("Storage"), labels(<<"Outflow">>)>>

transfer_records == {<<inflow, outflow>> : inflow \in 0..MaxVal, outflow \in 0..MaxVal}
reservoir_records ==
    {<<inflow, stored, <<release>> >> :
        inflow \in 0..MaxVal, stored \in 0..MaxVal, release \in 0..MaxVal}

RecordLists(S) == UNION {[1..k -> S] : k \in 0..MaxRecords}

Logs ==
    {[headers |-> h, records |-> r] :
        h \in {<<>>, transfer_labels}, r \in RecordLists(transfer_records)}
    \cup {[headers |-> h, records |-> r] :
        h \in {<<>>, storage_labels, passive_operation_headers},
        r \in RecordLists(reservoir_records)}

Labels == {"inflow", "outflow", "storage", "Inflow", "Outflow", "release"}

LogInit == \E lg \in Logs : Alone(<<>>, <<lg>>, "log")

(* Log.records_by_label(label) *)
log_records_by_label ==
    /\ pc = "log"
    /\ \E lab \in Labels :
          /\ ret' = records_by_label(logs[1], lab).value
          /\ err' = records_by_label(logs[1], lab).err
          /\ hist' = <<[label |-> lab]>>
    /\ UNCHANGED <<diagram, nodes, name, senders, storage, timestep, pc, i, cxns, call,
                   logs, wraps, result, order, time_steps, t, log_nodes, trace>>

LogNext == log_records_by_label

LogSpec == LogInit /\ [][LogNext]_vars

----------------------------------------------------------------------------
(* Nodes used on their own: node 1 is a Storage or an Outlet, node 2 an    *)
(* Inflow, node 3 any node, with the name, data or reservoir of node 1 or  *)
(* 2 or others; the caller adds nodes 2 and 3 as senders of node 1,        *)
(* attaches a Log to node 1 and calls its send.  hist is the state before  *)
(* the last send.                                                          *)
NodeNames == {<<>>, <<"a">>}

FlowLists == UNION {[1..k -> {0, MaxVal}] : k \in 0..MaxData}

Inflows(data) ==
    {Inflow(nm, d) : nm \in NodeNames, d \in {data, <<MaxVal, MaxVal>>}}
Storages ==
    {StorageOf(nm, rn, capacity, initial_volume) :
        nm \in NodeNames, rn \in NodeNames,
        capacity \in {0, MaxCap}, initial_volume \in {0, MaxCap}}
Outlets == {Outlet(nm) : nm \in NodeNames}

NodeInit ==
    \E r \in {Storage(<<>>, capacity, initial_volume) :
                  capacity \in 0..MaxCap, initial_volume \in {0, MaxCap}} \cup {Outlet(<<>>)} :
      \E a \in {Inflow(<<>>, data) : data \in FlowLists} :
        \E b \in Inflows(a.data) \cup Storages \cup Outlets :
            Alone(<<r, a, b>>, <<>>, "nodes")

(* Storage.add_sender, Outlet.add_sender on node 1 *)
node_add_sender ==
    /\ pc = "nodes"
    /\ \E s \in {2, 3} : senders' = [senders EXCEPT ![1] = add_sender(@, s)]
    /\ hist' = <<>>
    /\ UNCHANGED <<diagram, nodes, name, storage, timestep, pc, i, cxns, call, err, logs,
                   wraps, result, order, time_steps, t, log_nodes, ret, trace>>

(* node.attach_log(Log()) on node 1, before the node's first send *)
node_attach_log ==
    /\ pc = "nodes"
    /\ t = 0
    /\ Len(logs) < MaxLogs
    /\ logs' = Append(logs, [headers |-> headers_of(1), records |-> <<>>])
    /\ wraps' = [wraps EXCEPT ![1] = Append(@, Len(logs) + 1)]
    /\ hist' = <<>>
    /\ UNCHANGED <<diagram, nodes, name, senders, storage, timestep, pc, i, cxns, call, err,
                   result, order, time_steps, t, log_nodes, ret, trace>>

(* node.send() on node 1, its sender set iterated in one of its orders *)
node_send ==
    /\ pc = "nodes"
    /\ t < MaxSends
    /\ \E o \in Orders(senders[1]) :
          LET r == send(1, [storage |-> storage, timestep |-> timestep, logs |-> logs,
                            err |-> NoErr, order |-> [order EXCEPT ![1] = o],
                            trace |-> <<>>])
          IN  /\ order' = [order EXCEPT ![1] = o]
              /\ trace' = r.st.trace
              /\ storage' = r.st.storage
              /\ timestep' = r.st.timestep
              /\ logs' = r.st.logs
              /\ err' = r.st.err
              /\ ret' = r.value
    /\ hist' = <<[storage |-> storage, timestep |-> timestep, logs |-> logs]>>
    /\ t' = t + 1
    /\ UNCHANGED <<diagram, nodes, name, senders, pc, i, cxns, call, wraps, result,
                   time_steps, log_nodes>>

NodeNext ==
    \/ node_add_sender
    \/ node_attach_log
    \/ node_send

NodeSpec == NodeInit /\ [][NodeNext]_vars

----------------------------------------------------------------------------
(* flatten_layer called on a layer, as in TestFlattenLayer: the elements   *)
(* are nodes, objects that are no nodes, and groups (empty ones too) of    *)
(* nodes and other objects.  The layer is the one layer of diagram; hist   *)
(* is set by the call.                                                     *)
Members == {NotANode, 1, 2}
Elements ==
    {[grp |-> FALSE, nodes |-> <<m>>] : m \in Members}
    \cup {[grp |-> TRUE, nodes |-> g] : g \in UNION {[1..k -> Members] : k \in 0..MaxGroup}}
Layers == UNION {[1..e -> Elements] : e \in 0..MaxElems}

FlattenInit ==
    \E layer \in Layers :
        AloneWith(<<layer>>, <<Inflow(<<>>, DefaultData), Storage(<<>>, 1, 0)>>, <<>>, "flatten")

(* flatten_layer(layer) *)
flatten_layer_call ==
    /\ pc = "flatten"
    /\ hist = <<>>
    /\ err' = flatten_layer_err(diagram[1])
    /\ ret' = IF err' # NoErr THEN <<>> ELSE flatten_layer(diagram[1])
    /\ hist' = <<[layer |-> diagram[1]]>>
    /\ UNCHANGED <<diagram, nodes, name, senders, storage, timestep, pc, i, cxns, call, logs,
                   wraps, result, order, time_steps, t, log_nodes, trace>>

FlattenNext == flatten_layer_call

FlattenSpec == FlattenInit /\ [][FlattenNext]_vars

(* link_diagram has returned the description *)
Linked == {"linked", "system", "running", "done", "raised"}
(* System(diagram) has returned a System *)
Constructed == {"system", "running", "done", "raised"}

tags_of(layer) ==
    LET flat == flatten_layer(layer)
    IN  [p \in 1..Len(flat) |-> nodes[flat[p]].tag]

(* 0-based positions of the nodes of the flattened layer that are not Inflow *)
non_sources(layer) ==
    LET tags == tags_of(layer)
    IN  {p \in 0..(Len(tags) - 1) : tags[p + 1] # INFLOW}
sources_before(layer, n) ==
    LET tags == tags_of(layer)
    IN  {p \in 0..(n - 1) : tags[p + 1] = INFLOW}
has_sink(layer) ==
    LET tags == tags_of(layer)
    IN  \E p \in DOMAIN tags : tags[p] = OUTLET

first_layer_is_one_sink ==
    /\ Len(diagram[1]) = 1
    /\ ~diagram[1][1].grp
    /\ nodes[diagram[1][1].nodes[1]].tag = OUTLET

sink_outside_first_layer == \E l \in 2..Len(diagram) : has_sink(diagram[l])

last_layer_has_non_source == non_sources(diagram[Len(diagram)]) # {}

(* the invariants of a Description *)
valid_description ==
    /\ first_layer_is_one_sink
    /\ ~sink_outside_first_layer
    /\ ~last_layer_has_non_source
    /\ \A l \in 1..(Len(diagram) - 1) :
          Cardinality(non_sources(diagram[l])) <= Len(diagram[l + 1])

(* construction is refused with the error type of the structural checks *)
rejected == pc \notin Linked /\ (pc = "failed" => err.type = "ValueError")

outflows(records) == [k \in 1..Len(records) |-> records[k][Len(records[k])]]
inflows(records) == [k \in 1..Len(records) |-> records[k][1]]
records_of(nm) == logs[result[nm]].records

----------------------------------------------------------------------------
(* C1: after System construction of a valid description no two nodes have  *)
(* the same name.                                                          *)
C1_NamesUnique ==
    (pc \in Constructed /\ valid_description) =>
        \A a, b \in DOMAIN nodes : a # b => name[a] # name[b]

(* C2: a description whose first layer is not exactly one ungrouped Sink   *)
(* is refused with a structural error and no System is produced, also when *)
(* it has one layer only.                                                  *)
C2_FirstLayerRejected == ~first_layer_is_one_sink => rejected

(* C3: a description whose last layer holds a node that is not a Source is *)
(* refused with a structural error.                                        *)
C3_LastLayerRejected == last_layer_has_non_source => rejected

(* C4: a description with a Sink in a layer other than the first is        *)
(* refused with a structural error.                                        *)
C4_SinkOutsideRejected == sink_outside_first_layer => rejected

(* C5: after format_node_names the k-th node (in flattened order) of a     *)
(* repeated original name is named base_k, and a node whose original name  *)
(* occurs once keeps it.                                                   *)
C5_SuffixedInOrder ==
    pc \in Constructed =>
        LET flat == flatten_diagram(diagram)
        IN  \A p \in 1..Len(flat) :
               LET base == nodes[flat[p]].name
                   same == {q \in 1..Len(flat) : nodes[flat[q]].name = base}
                   k == Cardinality({q \in same : q <= p})
               IN  name[flat[p]] =
                       IF Cardinality(same) > 1 THEN Append(base, k) ELSE base

(* the downstream node and the upstream nodes of connection k of the last  *)
(* link_layers call                                                        *)
ds_node_of(k) == flatten_layer(diagram[call.ds + 1])[cxns[k][1] + 1]
us_part_of(k) == diagram[call.us + 1][cxns[k][2] + 1].nodes

(* C6: after link_layers every node of the upstream element of a           *)
(* connection is a sender of its downstream node: the sender set grows by  *)
(* the size of the group, or by the single node.                           *)
C6_GroupLinked ==
    (pc \in {"link_layers", "link_diagram"} /\ err = NoErr) =>
        \A k \in 1..Len(cxns) :
            /\ \A m \in 1..Len(us_part_of(k)) : us_part_of(k)[m] \in senders[ds_node_of(k)]
            /\ Cardinality(senders[ds_node_of(k)]) = Len(us_part_of(k))

(* the connections of a layer as the claim states them: one per node that  *)
(* is not a Source, in order, (n, n - i) with i the Sources before n, so   *)
(* the k-th of them (from 0) goes to upstream position k                   *)
is_cxns_of(cs, layer) ==
    LET ns == non_sources(layer)
    IN  /\ Len(cs) = Cardinality(ns)
        /\ \A k \in 1..Len(cs) :
              /\ cs[k][1] \in ns
              /\ Cardinality({q \in ns : q < cs[k][1]}) = k - 1
              /\ cs[k][2] = cs[k][1] - Cardinality(sources_before(layer, cs[k][1]))
              /\ cs[k][2] = k - 1

(* C7: process_middle_layer of a layer without a Sink returns one          *)
(* connection per non-Source node, in order, (n, n - i); link_diagram      *)
(* hands exactly these to link_layers.                                     *)
C7_MiddleConnections ==
    /\ \A l \in 1..Len(diagram) :
          ~has_sink(diagram[l]) =>
              LET pm == process_middle_layer(diagram[l])
              IN  pm.err = NoErr /\ is_cxns_of(pm.cxns, diagram[l])
    /\ (pc # "link_layers" /\ call.ds >= 1) => is_cxns_of(cxns, diagram[call.ds + 1])

C7_Witness ==
    /\ pc = "link_diagram"
    /\ call.ds >= 1
    /\ \E k \in 1..Len(cxns) : cxns[k][1] > cxns[k][2]

is_simple_diagram == diagram = simple_diagram.diagram /\ nodes = simple_diagram.nodes
is_complex_diagram == diagram = complex_diagram.diagram /\ nodes = complex_diagram.nodes

C9_ComplexDiagramLogs ==
    (is_complex_diagram /\ pc = "done" /\ time_steps = 3 /\ log_nodes = None) =>
        /\ outflows(records_of(<<"outlet">>)) = <<0, 2, 2>>
        /\ records_of(<<"storage", 1>>) = << <<1, 1, <<0>> >>, <<1, 1, <<1>> >>, <<0, 1, <<0>> >> >>
        /\ records_of(<<"storage", 2>>) = << <<0, 0, <<0>> >>, <<2, 1, <<1>> >>, <<2, 1, <<2>> >> >>
        /\ records_of(<<"storage", 3>>) = << <<1, 1, <<0>> >>, <<1, 1, <<1>> >>, <<1, 1, <<1>> >> >>
        /\ records_of(<<"storage", 4>>) = << <<1, 1, <<0>> >>, <<1, 1, <<1>> >>, <<1, 1, <<1>> >> >>

(* connection k of the last link_layers call names a position past the end *)
(* of the flattened downstream layer or of the upstream layer              *)
past_the_end(k) ==
    \/ cxns[k][1] >= Len(flatten_layer(diagram[call.ds + 1]))
    \/ cxns[k][2] >= Len(diagram[call.us + 1])

(* C10: link_layers raises the out-of-range error at the first connection  *)
(* that is past the end, adding no sender for it or any later connection;  *)
(* and link_diagram fails when a layer has more non-Source nodes than the  *)
(* next layer has elements.                                                *)
C10_OutOfRange ==
    /\ (pc # "new" /\ call.us >= 1 /\ \E k \in 1..Len(cxns) : past_the_end(k)) =>
          LET first == CHOOSE k \in 1..Len(cxns) :
                          past_the_end(k) /\ \A j \in 1..(k - 1) : ~past_the_end(j)
          IN  /\ err = Raise("ValueError", "link_layers")
              /\ pc \in {"failed", "link_layers"}
              /\ \A n \in {ds_node_of(x) : x \in {y \in 1..Len(cxns) :
                                  cxns[y][1] < Len(flatten_layer(diagram[call.ds + 1]))}} :
                    senders[n] \subseteq
                        UNION {{us_part_of(j)[m] : m \in 1..Len(us_part_of(j))} :
                                  j \in {x \in 1..(first - 1) : ds_node_of(x) = n}}
    /\ (\E l \in 1..(Len(diagram) - 1) :
            Cardinality(non_sources(diagram[l])) > Len(diagram[l + 1])) =>
          pc \notin Linked

C10_Witness ==
    /\ pc = "failed"
    /\ err = Raise("ValueError", "link_layers")
    /\ call.ds >= 1
    /\ \E k \in 1..Len(cxns) : past_the_end(k)

----------------------------------------------------------------------------
(* the nodes reachable from the nodes of S by following sender references *)
RECURSIVE reachable_from(_)
reachable_from(S) ==
    LET more == S \cup UNION {senders[n] : n \in S}
    IN  IF more = S THEN S ELSE reachable_from(more)

(* the Sink of a description whose first layer is one ungrouped node *)
sink == diagram[1][1].nodes[1]

(* C11: in the graph of an accepted description every node of every layer  *)
(* is reachable from the Sink by following sender references.              *)
C11_Connected ==
    (pc \in Linked /\ first_layer_is_one_sink) =>
        DOMAIN nodes \subseteq reachable_from({sink})

(* the state in which the loop of simulation starts, the sender sets       *)
(* iterated in the orders o: the nodes as constructed, the Logs empty      *)
before_run(o) ==
    [storage |-> [n \in DOMAIN nodes |-> nodes[n].initial_volume],
     timestep |-> [n \in DOMAIN nodes |-> -1],
     logs |-> [l \in DOMAIN logs |-> [logs[l] EXCEPT !.records = <<>>]],
     err |-> NoErr,
     order |-> o,
     trace |-> <<>>]

(* k iterations of the loop of simulation from the state st *)
RECURSIVE run_from(_, _)
run_from(st, k) ==
    IF k = 0 \/ st.err # NoErr THEN st ELSE run_from(send(sink, st).st, k - 1)

ExactRunsOrderIndependent ==
    (pc = "done" /\ \A n \in DOMAIN nodes : \A k \in DOMAIN nodes[n].data :
                        nodes[n].data[k] < 2^Precision) =>
        \A o \in SenderOrders(Len(nodes)) :
            /\ run_from(before_run(o), time_steps).err = NoErr
            /\ run_from(before_run(o), time_steps).logs = logs

(* the number of paths from the Sink to node n along sender references *)
receivers(n) == {m \in DOMAIN nodes : n \in senders[m]}

RECURSIVE paths(_), paths_over(_)
paths_over(S) ==
    IF S = {} THEN 0
    ELSE LET m == CHOOSE x \in S : TRUE
         IN  paths(m) + paths_over(S \ {m})

paths(n) == IF n = sink THEN 1 ELSE paths_over(receivers(n))

(* C17: simulation sends on the Sink time_steps times and each send that   *)
(* reaches a node appends one record to each Log attached to it: after t   *)
(* iterations a logged node with one path to the Sink has t records (so    *)
(* time_steps at the end, and none when time_steps = 0), a node with no    *)
(* path has none.                                                          *)
C17_OneRecordPerSend ==
    (pc \in {"running", "done"}) =>
        /\ pc = "done" => t = time_steps
        /\ \A n \in DOMAIN nodes : \A k \in 1..Len(wraps[n]) :
              /\ paths(n) = 1 => Len(logs[wraps[n][k]].records) = t
              /\ paths(n) = 0 => Len(logs[wraps[n][k]].records) = 0

C17_Witness ==
    /\ pc = "done"
    /\ time_steps >= 2
    /\ log_nodes.given
    /\ \E n \in DOMAIN nodes :
          /\ n # sink
          /\ Len(wraps[n]) >= 1
          /\ paths(n) = 1
          /\ Len(logs[wraps[n][1]].records) = time_steps

(* the names add_logs is asked for *)
requested ==
    IF log_nodes.given THEN {log_nodes.names[k] : k \in 1..Len(log_nodes.names)}
    ELSE {name[n] : n \in DOMAIN nodes}

(* C19: add_logs returns a mapping with one new, empty Log per requested   *)
(* name, keyed by the node's name, one per node of the system when no      *)
(* names are given; a name that no node has makes it fail with the lookup  *)
(* error of node_by_name.                                                  *)
C19_OneLogPerName ==
    /\ (pc \in {"running", "raised", "done"} /\ node_by_name(<<"nowhere">>) = 0
            /\ <<"nowhere">> \in requested) =>
          (pc = "raised" /\ err = Raise("ValueError", "node_by_name"))
    /\ (pc = "running" /\ t = 0) =>
          /\ DOMAIN result = requested
          /\ \A x \in DOMAIN result :
                /\ result[x] \in DOMAIN logs
                /\ logs[result[x]].records = <<>>
                /\ \E n \in DOMAIN nodes :
                      name[n] = x /\ \E k \in 1..Len(wraps[n]) : wraps[n][k] = result[x]
                /\ \A y \in DOMAIN result : x # y => result[x] # result[y]
          /\ ~log_nodes.given => Cardinality(DOMAIN result) = Cardinality(DOMAIN nodes)

----------------------------------------------------------------------------
(* receive calls 1..k since the last reset were all made with loop         *)
(* enabled, or all with loop disabled                                      *)
looping_until(k) == \A j \in 1..k : hist[j].loop
plain_until(k) == \A j \in 1..k : ~hist[j].loop

(* C12: for data of length L >= 1 the k-th receive, k <= L, returns        *)
(* data[k-1]; with loop enabled the k-th receive returns data[(k-1) mod L] *)
(* for every k.                                                            *)
C12_ReceiveInOrder ==
    (pc = "inflow" /\ Len(nodes[1].data) >= 1) =>
        LET data == nodes[1].data
            L == Len(data)
        IN  \A k \in 1..Len(hist) :
               /\ k <= L => (hist[k].err = "none" /\ hist[k].value = data[k])
               /\ looping_until(k) =>
                     (hist[k].err = "none" /\ hist[k].value = data[((k - 1) % L) + 1])

C12_Witness ==
    /\ pc = "inflow"
    /\ Len(nodes[1].data) = 2
    /\ nodes[1].data[1] # nodes[1].data[2]
    /\ Len(hist) = 4
    /\ looping_until(4)
    /\ ret = nodes[1].data[2]

(* C13: with loop disabled and data of length L >= 0, receive number L + 1 *)
(* and every later one before a reset signals the end of the data and      *)
(* leaves the position where it was; with no data the first receive does.  *)
C13_Exhausted ==
    pc = "inflow" =>
        \A k \in 1..Len(hist) :
            (plain_until(k) /\ k > Len(nodes[1].data)) =>
                /\ hist[k].err = "StopIteration"
                /\ hist[k].after = hist[k].before
                /\ k = Len(hist) => (err.type = "StopIteration" /\ timestep[1] = hist[k].before)

C13_Witness ==
    /\ pc = "inflow"
    /\ Len(nodes[1].data) >= 1
    /\ Len(hist) = Len(nodes[1].data) + 2
    /\ plain_until(Len(hist))
    /\ err.type = "StopIteration"

----------------------------------------------------------------------------
Min(a, b) == IF a <= b THEN a ELSE b
Max(a, b) == IF a >= b THEN a ELSE b

(* C16: the passive operation of a reservoir with the given storage and    *)
(* capacity returns (inflow, min(capacity, storage + inflow),               *)
(* (max(0, storage + inflow - capacity),)) and leaves                      *)
(* min(capacity, storage + inflow) as the stored volume.                   *)
C16_PassiveOperation ==
    (pc = "reservoir" /\ hist # <<>>) =>
        LET inflow == hist[1].inflow
            before == hist[1].before
            capacity == nodes[1].capacity
        IN  /\ ret = <<inflow, Min(capacity, before + inflow),
                       <<Max(0, before + inflow - capacity)>> >>
            /\ storage[1] = Min(capacity, before + inflow)

C16_Witness ==
    /\ pc = "reservoir"
    /\ t >= 2
    /\ hist # <<>>
    /\ hist[1].before > 0
    /\ hist[1].inflow > 0
    /\ ret[3][1] > 0
    /\ storage[1] = nodes[1].capacity

----------------------------------------------------------------------------
(* C18: records_by_label(label) returns the field at the position of the   *)
(* header that is the label; when no header is the label, the first field  *)
(* for 'inflow' and the last field for 'outflow'; for any other label that *)
(* is no header it fails with the lookup error.                            *)
C18_RecordsByLabel ==
    (pc = "log" /\ hist # <<>>) =>
        LET lab == hist[1].label
            hs == logs[1].headers
            records == logs[1].records
            at == {p \in 1..Len(hs) : hs[p] = label(lab)}
        IN  IF at # {}
            THEN /\ err = NoErr
                 /\ ret = [k \in 1..Len(records) |-> records[k][least(at)]]
            ELSE IF lab = "inflow"
            THEN /\ err = NoErr
                 /\ ret = [k \in 1..Len(records) |-> records[k][1]]
            ELSE IF lab = "outflow"
            THEN /\ err = NoErr
                 /\ ret = [k \in 1..Len(records) |-> records[k][Len(records[k])]]
            ELSE err = Raise("ValueError", "records_by_label")

----------------------------------------------------------------------------
(* what sender s of node 1 sent in the last send of node 1: an Inflow its  *)
(* flow at the position it is now at, a Storage (it has no senders) what   *)
(* its stored volume exceeded its capacity by, an Outlet nothing           *)
sent_by(s) ==
    IF nodes[s].tag = INFLOW THEN nodes[s].data[timestep[s] + 1]
    ELSE IF nodes[s].tag = STORAGE THEN Max(0, hist[1].storage[s] - nodes[s].capacity)
    ELSE 0

received == (IF 2 \in senders[1] THEN sent_by(2) ELSE 0)
            + (IF 3 \in senders[1] THEN sent_by(3) ELSE 0)

(* C15: Storage.send receives the sum of send() over its senders (0 with   *)
(* none), applies the policy to it once, changing the stored volume, logs  *)
(* the record (inflow, stored volume after, releases) once, and returns    *)
(* the sum of the releases.                                                *)
C15_StorageSend ==
    (pc = "nodes" /\ hist # <<>> /\ err = NoErr /\ nodes[1].tag = STORAGE) =>
        LET stored == Min(nodes[1].capacity, hist[1].storage[1] + received)
            release == Max(0, hist[1].storage[1] + received - nodes[1].capacity)
        IN  /\ storage[1] = stored
            /\ ret = release
            /\ \A l \in DOMAIN logs :
                  logs[l].records =
                      Append(hist[1].logs[l].records, <<received, stored, <<release>> >>)

C15_Witness ==
    /\ pc = "nodes"
    /\ hist # <<>>
    /\ err = NoErr
    /\ nodes[1].tag = STORAGE
    /\ senders[1] = {2, 3}
    /\ Len(logs) = 1
    /\ t >= 2
    /\ received >= 2
    /\ ret >= 1

(* the static configuration of two nodes matches, as the claim lists it:   *)
(* tag, name and, for an Inflow, data (the policy type is the default one  *)
(* throughout)                                                             *)
same_listed_configuration(a, b) ==
    /\ nodes[a].tag = nodes[b].tag
    /\ name[a] = name[b]
    /\ nodes[a].tag = INFLOW => nodes[a].data = nodes[b].data

(* the same, and for a Storage also the name and capacity of the reservoir *)
same_configuration(a, b) ==
    /\ same_listed_configuration(a, b)
    /\ nodes[a].tag = STORAGE => /\ nodes[a].capacity = nodes[b].capacity
                                 /\ nodes[a].reservoir_name = nodes[b].reservoir_name

(* C20 as stated: nodes of the same variant whose tag, name, policy type   *)
(* and (Inflow) data match are equal and hash equal whatever their stored  *)
(* volume, position and senders; nodes of different variants or names are  *)
(* unequal.                                                                *)
C20_EqualByListedConfiguration ==
    pc = "nodes" =>
        \A a, b \in DOMAIN nodes :
            /\ same_listed_configuration(a, b) => (NodeEq(a, b) /\ node_key(a) = node_key(b))
            /\ (nodes[a].tag # nodes[b].tag \/ name[a] # name[b]) => ~NodeEq(a, b)

(* C20, amended: the configuration compared includes, for a Storage, the   *)
(* name and the capacity of its reservoir; stored volume, position and     *)
(* senders play no part.                                                   *)
C20_EqualByConfiguration ==
    pc = "nodes" =>
        \A a, b \in DOMAIN nodes :
            /\ same_configuration(a, b) => (NodeEq(a, b) /\ node_key(a) = node_key(b))
            /\ (nodes[a].tag # nodes[b].tag \/ name[a] # name[b]) => ~NodeEq(a, b)
            /\ (nodes[a].tag = STORAGE /\ nodes[b].tag = STORAGE
                    /\ nodes[a].capacity # nodes[b].capacity) => ~NodeEq(a, b)

C20_Witness ==
    /\ pc = "nodes"
    /\ t >= 1
    /\ err = NoErr
    /\ nodes[1].tag = STORAGE
    /\ NodeEq(1, 3)
    /\ storage[1] # storage[3]
    /\ senders[1] = {2}
    /\ timestep[2] >= 0

----------------------------------------------------------------------------
(* the number of members of the elements before element e of a layer *)
RECURSIVE members_before(_, _)
members_before(layer, e) ==
    IF e <= 1 THEN 0 ELSE Len(layer[e - 1].nodes) + members_before(layer, e - 1)

is_node(x) == x # NotANode

(* C21: flatten_layer returns the nodes of the layer from left to right,   *)
(* the members of a group in place and in their order, as many as there    *)
(* are single nodes and group members; it fails with the structural error  *)
(* when an element is neither a node nor a group of nodes only.            *)
C21_FlattenLayer ==
    (pc = "flatten" /\ hist # <<>>) =>
        LET layer == hist[1].layer
            valid == \A e \in 1..Len(layer) : \A k \in 1..Len(layer[e].nodes) :
                        is_node(layer[e].nodes[k])
        IN  IF valid
            THEN /\ err = NoErr
                 /\ Len(ret) = members_before(layer, Len(layer) + 1)
                 /\ \A e \in 1..Len(layer) : \A k \in 1..Len(layer[e].nodes) :
                        ret[members_before(layer, e) + k] = layer[e].nodes[k]
            ELSE err = Raise("ValueError", "flatten_layer")

C21_Witness ==
    /\ pc = "flatten"
    /\ hist # <<>>
    /\ err = NoErr
    /\ Len(hist[1].layer) = 2
    /\ ~hist[1].layer[1].grp
    /\ hist[1].layer[2].grp
    /\ ret = <<2, 1, 2>>

----------------------------------------------------------------------------
(* a step of simulation: of its set-up, of its loop, or its return *)
in_simulation == pc \in {"system", "running", "done"}

(* the Logs that existed when the current call of simulation was made *)
logs_before_call == IF hist = <<>> THEN 0 ELSE Len(hist[Len(hist)].logs)

(* no step of simulation changes a sender set, a name, a node's            *)
(* configuration or the layers                                             *)
TopologyFrame ==
    [][in_simulation =>
          (senders' = senders /\ name' = name /\ nodes' = nodes /\ diagram' = diagram)]_vars

(* C22: a step of simulation changes no sender set, no name and no layer;  *)
(* of the Logs it changes only those the run has created (the stored       *)
(* volumes and the positions of the Inflow nodes may change).              *)
C22_SimulationFrame ==
    [][in_simulation =>
          /\ senders' = senders
          /\ name' = name
          /\ nodes' = nodes
          /\ diagram' = diagram
          /\ \A l \in 1..logs_before_call : logs'[l] = logs[l]]_vars

----------------------------------------------------------------------------
(* the number of times node n is in the trace tr *)
times_in(n, tr) == Cardinality({p \in 1..Len(tr) : tr[p] = n})

(* in the trace tr node u comes before every occurrence of node d *)
comes_before(u, d, tr) ==
    \A q \in 1..Len(tr) : tr[q] = d => \E p \in 1..(q - 1) : tr[p] = u

(* C23: in a timestep, for every sender edge (u sends to d), u operates    *)
(* and its record is appended before d operates and d's record is          *)
(* appended; the Sink comes last, and an Inflow comes before every node    *)
(* downstream of it.  A node's Logs get one record each time it operates.  *)
C23_PullOrder ==
    [][(pc = "running" /\ pc' = "running" /\ t' = t + 1) =>
          /\ trace'[Len(trace')] = sink
          /\ times_in(sink, trace') = 1
          /\ \A d \in DOMAIN nodes : \A u \in senders[d] : comes_before(u, d, trace')
          /\ \A d \in DOMAIN nodes : \A u \in reachable_from({d}) \ {d} :
                nodes[u].tag = INFLOW => comes_before(u, d, trace')
          /\ \A n \in DOMAIN nodes : \A k \in 1..Len(wraps[n]) :
                Len(logs'[wraps[n][k]].records) =
                    Len(logs[wraps[n][k]].records) + times_in(n, trace')]_vars

C23_Witness ==
    /\ pc = "running"
    /\ t >= 2
    /\ log_nodes = None
    /\ Len(trace) = 4
    /\ Cardinality(senders[trace[3]]) = 2
    /\ trace[3] \in senders[trace[4]]
    /\ \A n \in DOMAIN nodes : Len(logs[wraps[n][1]].records) = t

----------------------------------------------------------------------------
(* the connections of layer l (from 1) of the description *)
cxns_of_layer(l) ==
    IF l = 1 THEN process_outlet_layer(diagram[l]).cxns
    ELSE process_middle_layer(diagram[l]).cxns

(* layer l has been linked to layer l + 1: each node of it that has a      *)
(* connection holds senders, all of them nodes of its upstream element     *)
layer_populated(l) ==
    \A k \in 1..Len(cxns_of_layer(l)) :
        LET c == cxns_of_layer(l)[k]
            ds_node == flatten_layer(diagram[l])[c[1] + 1]
            us_part == diagram[l + 1][c[2] + 1].nodes
        IN  /\ senders[ds_node] # {}
            /\ senders[ds_node] \subseteq {us_part[m] : m \in 1..Len(us_part)}

layer_untouched(l) ==
    \A p \in 1..Len(flatten_layer(diagram[l])) : senders[flatten_layer(diagram[l])[p]] = {}

(* the validation of a layer (layer i, from 0) has failed *)
validation_failed ==
    /\ pc = "failed"
    /\ err.site \in {"process_middle_layer", "validate_inflow_layer"}

(* C24: link_diagram links the layer pairs in increasing order and         *)
(* validates a layer before a sender is added to a node of it; when the    *)
(* validation of layer k >= 1 fails, the nodes of the layers before k keep *)
(* the senders they were given and no node of layer k or a later layer has *)
(* a sender.                                                               *)
C24_AbortKeepsLinks ==
    /\ (pc = "link_diagram" /\ err = NoErr) =>
          /\ call = [ds |-> i - 1, us |-> i]
          /\ \A l \in 1..i : layer_populated(l)
          /\ \A l \in (i + 1)..Len(diagram) : layer_untouched(l)
    /\ (validation_failed /\ i >= 1) =>
          /\ \A l \in 1..i : layer_populated(l)
          /\ \A l \in (i + 1)..Len(diagram) : layer_untouched(l)

C24_Witness ==
    /\ validation_failed
    /\ err.site = "process_middle_layer"
    /\ i = 2
    /\ senders[sink] # {}
    /\ nodes[flatten_layer(diagram[3])[1]].tag = STORAGE
    /\ \E n \in senders[sink] : senders[n] # {}

----------------------------------------------------------------------------
(* the Inflow nodes without loop that the Sink pulls from, each along one  *)
(* path, and the length of the shortest data among them                    *)
plain_sources ==
    {n \in reachable_from({sink}) : nodes[n].tag = INFLOW /\ ~nodes[n].loop}
shortest == least({Len(nodes[n].data) : n \in plain_sources})

(* the first call of simulation on the System has attached its Logs and    *)
(* entered its loop                                                        *)
first_run_started ==
    /\ hist = <<>>
    /\ \/ pc \in {"running", "done"}
       \/ pc = "raised" /\ err.site \notin {"node_by_name", "simulation"}

(* a run that outlasts the data of an Inflow without loop *)
outlasts_data ==
    /\ first_run_started
    /\ plain_sources # {}
    /\ \A n \in reachable_from({sink}) : paths(n) = 1
    /\ shortest < time_steps

(* a run that outlasts the data of an Inflow ends in timestep L + 1, with  *)
(* the error the generator of receive makes of the end of the data, and    *)
(* returns nothing                                                         *)
ExhaustionEndsRun ==
    outlasts_data =>
        /\ pc # "done"
        /\ t <= shortest
        /\ pc = "raised" => (t = shortest /\ err = Raise("RuntimeError", "receive"))

(* C25: when an Inflow without loop that the Sink pulls from has L values, *)
(* L < time_steps, the run does not complete: timestep L + 1 raises, the   *)
(* end of the data leaves simulation as the exhaustion signal, no later    *)
(* timestep runs and no logs are returned.                                 *)
C25_ExhaustionPropagates ==
    outlasts_data =>
        /\ pc # "done"
        /\ t <= shortest
        /\ pc = "raised" => (t = shortest /\ err.type = "StopIteration")

----------------------------------------------------------------------------
(* node n is a sender of two nodes, each with one path to the Sink *)
fans_out(n) ==
    /\ Cardinality(receivers(n)) = 2
    /\ \A d \in receivers(n) : paths(d) = 1

(* the position of an Inflow two receive calls after position ts *)
two_on(n, ts) ==
    IF nodes[n].loop THEN (ts + 2) % Len(nodes[n].data) ELSE ts + 2

(* C26: a node that is a sender of two nodes the Sink pulls from sends     *)
(* twice in each timestep: an Inflow moves on by two values, a Storage     *)
(* takes in and stores twice, and each Log of the node gets two records.   *)
C26_NoMemoization ==
    [][(pc = "running" /\ pc' = "running" /\ t' = t + 1) =>
          \A n \in DOMAIN nodes :
              fans_out(n) =>
                  /\ times_in(n, trace') = 2
                  /\ nodes[n].tag = INFLOW => timestep'[n] = two_on(n, timestep[n])
                  /\ \A k \in 1..Len(wraps[n]) :
                        LET before == logs[wraps[n][k]].records
                            after == logs'[wraps[n][k]].records
                        IN  /\ Len(after) = Len(before) + 2
                            /\ nodes[n].tag = STORAGE =>
                                  LET first == after[Len(before) + 1]
                                      second == after[Len(before) + 2]
                                  IN  /\ first[2] = Min(nodes[n].capacity, storage[n] + first[1])
                                      /\ second[2] = Min(nodes[n].capacity, first[2] + second[1])
                                      /\ storage'[n] = second[2]]_vars

C26_Witness ==
    /\ pc = "running"
    /\ t = 2
    /\ \E n \in DOMAIN nodes :
          /\ fans_out(n)
          /\ nodes[n].tag = INFLOW
          /\ times_in(n, trace) = 2
          /\ timestep[n] = 0
          /\ Len(wraps[n]) >= 1
          /\ Len(logs[wraps[n][1]].records) = 4

----------------------------------------------------------------------------
(* the Logs attached to nodes *)
attached == UNION {{wraps[n][k] : k \in 1..Len(wraps[n])} : n \in DOMAIN nodes}

is_prefix(a, b) == Len(a) <= Len(b) /\ \A k \in 1..Len(a) : b[k] = a[k]

----------------------------------------------------------------------------
(* the layer (1-based) in which node n is listed, and whether every node   *)
(* object is listed once in the description                                *)
layer_of(n) ==
    CHOOSE l \in 1..Len(diagram) :
        \E p \in 1..Len(flatten_layer(diagram[l])) : flatten_layer(diagram[l])[p] = n

nodes_of_layer(l) ==
    IF l > Len(diagram) THEN {}
    ELSE {flatten_layer(diagram[l])[p] : p \in 1..Len(flatten_layer(diagram[l]))}

each_node_once ==
    Cardinality({flatten_diagram(diagram)[p] : p \in 1..Len(flatten_diagram(diagram))})
        = Len(flatten_diagram(diagram))

(* the nodes of layer l that have a node of element e of layer l + 1 among *)
(* their senders                                                           *)
fed_by(l, e) ==
    {m \in nodes_of_layer(l) :
        \E k \in 1..Len(diagram[l + 1][e].nodes) :
            diagram[l + 1][e].nodes[k] \in senders[m]}

(* C28: for a description in which each node object appears once, after a *)
(* successful link_diagram the sender relation is a forest: every sender   *)
(* edge goes from a node of layer i + 1 to a node of layer i, no upstream   *)
(* position feeds two different downstream nodes, every node is a sender   *)
(* of at most one node, and no node is reachable from its own senders.     *)
C28_Forest ==
    (pc \in Linked /\ each_node_once) =>
        /\ \A l \in 1..Len(diagram) : \A m \in nodes_of_layer(l) :
               senders[m] \subseteq nodes_of_layer(l + 1)
        /\ \A l \in 1..(Len(diagram) - 1) : \A e \in 1..Len(diagram[l + 1]) :
               Cardinality(fed_by(l, e)) <= 1
        /\ \A a, b \in DOMAIN nodes : a # b => senders[a] \cap senders[b] = {}
        /\ \A n \in DOMAIN nodes :
               senders[n] # {} => n \notin reachable_from(senders[n])

(* a linked description with a layer of two nodes that both have senders,  *)
(* one of them a sender itself                                             *)
C28_Witness ==
    /\ pc \in Linked
    /\ each_node_once
    /\ \E a, b \in DOMAIN nodes :
          /\ a # b
          /\ layer_of(a) = layer_of(b)
          /\ senders[a] # {}
          /\ senders[b] # {}
          /\ Cardinality(receivers(a)) = 1

----------------------------------------------------------------------------
(* a connected tree with one Sink: every node has one path to the Sink     *)
(* along sender references and the Sink is the only Outlet                 *)
is_tree ==
    /\ first_layer_is_one_sink
    /\ \A n \in DOMAIN nodes : /\ paths(n) = 1
                               /\ nodes[n].tag = OUTLET => n = sink

(* Storage nodes are built holding between nothing and their capacity, and *)
(* the flows of the Inflow nodes are integers that the format of the flows *)
(* holds exactly                                                           *)
stocked_within_capacity ==
    \A n \in DOMAIN nodes :
        nodes[n].tag = STORAGE =>
            0 <= nodes[n].initial_volume /\ nodes[n].initial_volume <= nodes[n].capacity

integer_inflows ==
    \A n \in DOMAIN nodes : \A k \in 1..Len(nodes[n].data) :
        nodes[n].data[k] \in 0..(2^Precision - 1)

(* the timesteps completed by all calls of simulation so far *)
completed == IF pc = "done" THEN time_steps * Len(hist) ELSE time_steps * Len(hist) + t

(* the sum of the first k values an Inflow with this data hands out, the   *)
(* data repeating from its start                                           *)
RECURSIVE consumed(_, _)
consumed(data, k) ==
    IF k = 0 THEN 0
    ELSE data[((k - 1) % Len(data)) + 1] + consumed(data, k - 1)

consumed_total ==
    sum([n \in 1..Len(nodes) |->
            IF nodes[n].tag = INFLOW THEN consumed(nodes[n].data, completed) ELSE 0])

initial_total ==
    sum([n \in 1..Len(nodes) |->
            IF nodes[n].tag = STORAGE THEN nodes[n].initial_volume ELSE 0])

stored_total ==
    sum([n \in 1..Len(nodes) |-> IF nodes[n].tag = STORAGE THEN storage[n] ELSE 0])

(* the outflow of the Sink over all timesteps, read from the first Log     *)
(* attached to it, which every later send has appended to                  *)
sink_outflow ==
    LET records == logs[wraps[sink][1]].records
    IN  sum([r \in 1..Len(records) |-> records[r][2]])

(* C29: water balance.  For a connected tree of Inflow nodes with          *)
(* non-negative integer flows, Storage nodes with the passive policy built *)
(* holding between 0 and their capacity, and one Outlet, after every       *)
(* completed timestep the cumulative outflow of the Outlet plus the volumes *)
(* stored equals the flows consumed from the Inflow nodes plus the volumes *)
(* stored at construction, and every Storage holds between 0 and its       *)
(* capacity.                                                               *)
C29_WaterBalance ==
    (/\ pc \in {"running", "done"}
     /\ is_tree
     /\ stocked_within_capacity
     /\ integer_inflows
     /\ wraps[sink] # <<>>) =>
        /\ Len(logs[wraps[sink][1]].records) = completed
        /\ sink_outflow + stored_total = consumed_total + initial_total
        /\ \A n \in DOMAIN nodes :
              nodes[n].tag = STORAGE => 0 <= storage[n] /\ storage[n] <= nodes[n].capacity

(* two timesteps of a chain that was built holding water: the Outlet has   *)
(* passed water on and a Storage has filled up to its capacity             *)
C29_Witness ==
    /\ pc \in {"running", "done"}
    /\ is_tree
    /\ stocked_within_capacity
    /\ integer_inflows
    /\ wraps[sink] # <<>>
    /\ completed >= 2
    /\ initial_total >= 2
    /\ sink_outflow >= 1
    /\ consumed_total >= 2
    /\ \E a \in DOMAIN nodes :
          /\ nodes[a].tag = STORAGE
          /\ storage[a] = nodes[a].capacity
          /\ storage[a] > nodes[a].initial_volume

----------------------------------------------------------------------------
(* a System of looping Inflow nodes on which simulation has returned once, *)
(* and the Log a call returned for a name                                  *)
all_looping == \A n \in DOMAIN nodes : nodes[n].tag = INFLOW => nodes[n].loop
first_returned(nm) == hist[1].result[nm]
in_second_call == Len(hist) = 1 /\ pc = "running"
after_second_call == Len(hist) = 2 /\ pc = "done"

(* the part of C30 that holds: the Logs the second call returns hold one   *)
(* record per timestep of that call, time_steps of them at its end, for    *)
(* every logged node of a tree                                             *)
SecondCallLogs ==
    ((in_second_call \/ after_second_call) /\ all_looping /\ is_tree) =>
        \A nm \in DOMAIN result :
            Len(logs[result[nm]].records) = IF pc = "done" THEN time_steps ELSE t

(* C30: repeated runs on one System with looping Inflow nodes.  Two        *)
(* successive calls simulation(T) each return Logs that hold exactly T     *)
(* records per logged node, the second call appends nothing to the Logs    *)
(* the first call returned, and in the second call every send appends one  *)
(* record to the newly returned Log.                                       *)
C30_RepeatedRuns ==
    (after_second_call /\ all_looping /\ is_tree) =>
        /\ \A nm \in DOMAIN hist[1].result :
              /\ Len(hist[1].logs[first_returned(nm)].records) = time_steps
              /\ logs[first_returned(nm)].records = hist[1].logs[first_returned(nm)].records
        /\ \A nm \in DOMAIN result :
              /\ result[nm] # first_returned(nm)
              /\ Len(logs[result[nm]].records) = time_steps

====
